---- MODULE Spec2Model ----
(***************************************************************************)
(* Model of src/src/main.rs: the HalfBridge driver over an RP2 PWM slice   *)
(* (channel A = high side gate, channel B = low side gate), the six-entry  *)
(* commutation table and bldc_driver_task, which walks the table every     *)
(* tick.                                                                   *)
(*                                                                         *)
(* The slice is modelled by its registers (CSR.A_INV, CSR.B_INV, CC.A,     *)
(* CC.B, TOP, DIV, CSR.PH_CORRECT, CSR.EN).  A channel's raw output is     *)
(* high while the counter is below its compare value, the counter runs     *)
(* over 0..TOP, and the invert bit flips the output; a side of the half    *)
(* bridge conducts while its output is high.  The CSR bits act on the      *)
(* output as soon as they are written; CC and TOP are double buffered: the *)
(* slice compares against the values it latched when its counter last      *)
(* wrapped.  The counter runs free of the CPU, so a wrap may fall between  *)
(* any two steps of the code.                                              *)
(*                                                                         *)
(* Every hardware write of an operation (set_config, the high side duty    *)
(* write, the low side duty write) is one step of the model, so the states *)
(* between the writes are states of the model.                             *)
(***************************************************************************)
EXTENDS Integers, Sequences, FiniteSets, TLC

VARIABLES
    clk_sys_freq,   \* embassy_rp::clocks::clk_sys_freq(), in Hz
    debug_build,    \* TRUE: overflow checks and debug assertions are compiled in
    driver,         \* "main": main + bldc_driver_task; "test": direct calls on a half bridge
    args,           \* the (pwm_frequency_hz, dead_time_ns) handed to HalfBridge::new
    pc,             \* position of the running code
    cur,            \* the half bridge under construction / being operated on
    op,             \* the operation in progress on cur (a PhaseState)
    step,           \* bldc_driver_task: step
    hb,             \* the HalfBridge objects' fields: divider, top, dead_time_percentage
    locals,         \* HalfBridge::new's period and dead_time_ticks, per bridge, and
                    \* quotient = clock_freq_hz / (pwm_frequency_hz * divider)
    hw,             \* the PWM slices' registers, as last written
    active,         \* the CC and TOP values each slice latched at its last wrap
    results,        \* per bridge: what the duty writes of its latest operation returned
    issued,         \* the bridges operated on since the loop head of the current tick
    visited         \* the step indexes looked up so far (the last TableLen + 1 of them)

vars == <<clk_sys_freq, debug_build, driver, args, pc, cur, op, step, hb, locals, hw,
          active, results, issued, visited>>

------------------------------------------------------------------------------
(* Constants and types of main.rs *)

FULLY_ON_DUTY_CYCLE == 100
MAX_INVERTER_DUTY_CYCLE == 15
MIN_INVERTER_DUTY_CYCLE == 0

HighDutyCycle(percentage) == [tag |-> "HighDutyCycle", percentage |-> percentage]
Low == [tag |-> "Low", percentage |-> 0]
HighImpedance == [tag |-> "HighImpedance", percentage |-> 0]

InverterOutput(a, b, c) == [phase_a |-> a, phase_b |-> b, phase_c |-> c]

\* A table whose second entry drives phase b low instead of leaving it floating.
TableWithTwoLow ==
    << InverterOutput(HighDutyCycle(MAX_INVERTER_DUTY_CYCLE), Low, HighImpedance),
       InverterOutput(HighDutyCycle(MAX_INVERTER_DUTY_CYCLE), Low, Low),
       InverterOutput(HighImpedance, HighDutyCycle(MAX_INVERTER_DUTY_CYCLE), Low),
       InverterOutput(Low, HighDutyCycle(MAX_INVERTER_DUTY_CYCLE), HighImpedance),
       InverterOutput(Low, HighImpedance, HighDutyCycle(MAX_INVERTER_DUTY_CYCLE)),
       InverterOutput(HighImpedance, Low, HighDutyCycle(MAX_INVERTER_DUTY_CYCLE)) >>

\* A table whose second entry energizes phase b instead of leaving it floating.
TableWithTwoHigh ==
    << InverterOutput(HighDutyCycle(MAX_INVERTER_DUTY_CYCLE), Low, HighImpedance),
       InverterOutput(HighDutyCycle(MAX_INVERTER_DUTY_CYCLE),
                      HighDutyCycle(MAX_INVERTER_DUTY_CYCLE), Low),
       InverterOutput(HighImpedance, HighDutyCycle(MAX_INVERTER_DUTY_CYCLE), Low),
       InverterOutput(Low, HighDutyCycle(MAX_INVERTER_DUTY_CYCLE), HighImpedance),
       InverterOutput(Low, HighImpedance, HighDutyCycle(MAX_INVERTER_DUTY_CYCLE)),
       InverterOutput(HighImpedance, Low, HighDutyCycle(MAX_INVERTER_DUTY_CYCLE)) >>

\* A table with the columns of phases b and c exchanged: the reverse rotation.
TableReversed ==
    << InverterOutput(HighDutyCycle(MAX_INVERTER_DUTY_CYCLE), HighImpedance, Low),
       InverterOutput(HighDutyCycle(MAX_INVERTER_DUTY_CYCLE), Low, HighImpedance),
       InverterOutput(HighImpedance, Low, HighDutyCycle(MAX_INVERTER_DUTY_CYCLE)),
       InverterOutput(Low, HighImpedance, HighDutyCycle(MAX_INVERTER_DUTY_CYCLE)),
       InverterOutput(Low, HighDutyCycle(MAX_INVERTER_DUTY_CYCLE), HighImpedance),
       InverterOutput(HighImpedance, HighDutyCycle(MAX_INVERTER_DUTY_CYCLE), Low) >>

THREE_PHASE_COMMUTATION_TABLE ==
    << InverterOutput(HighDutyCycle(MAX_INVERTER_DUTY_CYCLE), Low, HighImpedance),
       InverterOutput(HighDutyCycle(MAX_INVERTER_DUTY_CYCLE), HighImpedance, Low),
       InverterOutput(HighImpedance, HighDutyCycle(MAX_INVERTER_DUTY_CYCLE), Low),
       InverterOutput(Low, HighDutyCycle(MAX_INVERTER_DUTY_CYCLE), HighImpedance),
       InverterOutput(Low, HighImpedance, HighDutyCycle(MAX_INVERTER_DUTY_CYCLE)),
       InverterOutput(HighImpedance, Low, HighDutyCycle(MAX_INVERTER_DUTY_CYCLE)) >>

\* THREE_PHASE_COMMUTATION_TABLE.len()
TableLen == Len(THREE_PHASE_COMMUTATION_TABLE)

\* The table is a Rust array, indexed from 0.
TableAt(i) == THREE_PHASE_COMMUTATION_TABLE[i + 1]

Bridges == {"a", "b", "c"}

\* output.phase_a / output.phase_b / output.phase_c
PhaseOf(output, h) ==
    CASE h = "a" -> output.phase_a
      [] h = "b" -> output.phase_b
      [] h = "c" -> output.phase_c

\* An order of the matches that goes from phase a to phase c and never to phase b.
NextBridgeSkippingB(h) == CASE h = "a" -> "c" [] h = "b" -> "c" [] h = "c" -> "a"

\* The order of main's three HalfBridge::new calls and of the task's three matches.
NextBridge(h) == CASE h = "a" -> "b" [] h = "b" -> "c" [] h = "c" -> "a"

U8 == 2^8
U16 == 2^16

------------------------------------------------------------------------------
(* The PWM slice *)

\* The slice before Pwm::new_output_ab: disabled, pins not driven by it.
ResetRegs ==
    [invert_a |-> FALSE, invert_b |-> FALSE, phase_correct |-> FALSE, enable |-> FALSE,
     divider |-> 1, compare_a |-> 0, compare_b |-> 0, top |-> U16 - 1]

\* The counter values 0..TOP at which a channel's output is high, as the half-open
\* interval <<from, to>>: counter < compare, flipped by the invert bit.
OutputHigh(enable, invert, compare, top) ==
    LET cc == IF compare > top + 1 THEN top + 1 ELSE compare
    IN  IF ~enable THEN <<0, 0>>
        ELSE IF invert THEN <<cc, top + 1>>
        ELSE <<0, cc>>

HighSide(r) == OutputHigh(r.enable, r.invert_a, r.compare_a, r.top)
LowSide(r) == OutputHigh(r.enable, r.invert_b, r.compare_b, r.top)

Width(iv) == IF iv[2] > iv[1] THEN iv[2] - iv[1] ELSE 0
Conducts(iv) == Width(iv) > 0

\* Some counter value at which both outputs are high.
Overlap(i, j) ==
    LET lo == IF i[1] > j[1] THEN i[1] ELSE j[1]
        hi == IF i[2] < j[2] THEN i[2] ELSE j[2]
    IN  lo < hi

ShootThrough(r) == Overlap(HighSide(r), LowSide(r))

\* What a slice latches when its counter wraps.
Latched(r) == [compare_a |-> r.compare_a, compare_b |-> r.compare_b, top |-> r.top]

\* The registers the outputs follow: the CSR bits as written, CC and TOP as latched.
Effective(r, l) ==
    [r EXCEPT !.compare_a = l.compare_a, !.compare_b = l.compare_b, !.top = l.top]

\* PwmOutput::max_duty_cycle: the slice's TOP register.
max_duty_cycle(r) == r.top

\* PwmOutput::set_duty_cycle on channel A (side = "a") or B (side = "b"): a duty above
\* max_duty_cycle is rejected with Err and the compare register keeps its value.
set_duty_cycle(r, side, duty) ==
    IF duty > max_duty_cycle(r) THEN [regs |-> r, result |-> "Err"]
    ELSE [regs |-> IF side = "a" THEN [r EXCEPT !.compare_a = duty]
                   ELSE [r EXCEPT !.compare_b = duty],
          result |-> "Ok"]

\* SetDutyCycle::set_duty_cycle_percent(percent: u8): debug_assert!(percent <= 100),
\* then set_duty_cycle((percent * max / 100) as u16), computed in u32.
set_duty_cycle_percent(r, side, percent, debug) ==
    IF debug /\ percent > 100 THEN [regs |-> r, result |-> "Panic"]
    ELSE set_duty_cycle(r, side, ((percent * max_duty_cycle(r)) \div 100) % U16)

set_duty_cycle_fully_off(r, side) == set_duty_cycle(r, side, 0)
set_duty_cycle_fully_on(r, side) == set_duty_cycle(r, side, max_duty_cycle(r))

\* Pwm::set_config / Pwm::new_output_ab: every register is written from the Config.
set_config(config) == config

------------------------------------------------------------------------------
(* HalfBridge *)

NoBridge == [divider |-> 0, top |-> 0, dead_time_percentage |-> 0]
NoLocals == [quotient |-> 0, period |-> 0, dead_time_ticks |-> 0]
NoResults == [high |-> "None", low |-> "None"]

\* let divider = 16u8
Divider == 16

\* ((dead_time_ns as u64 * clock_freq_hz as u64) / divider as u64 / 1_000_000_000) as u16.
\* The clocks of the model are whole MHz, for which the two truncating divisions equal
\* one division of dead_time_ns * MHz by divider * 1000; the product then stays in
\* the range of TLC's 32-bit integers.
DeadTimeTicks(dead_time_ns, clock_freq_hz) ==
    ((dead_time_ns * (clock_freq_hz \div 1000000)) \div (Divider * 1000)) % U16

\* HalfBridge::new with top = quotient / 2, the subtraction of 1 left out.
TimingWithoutMinusOne(clock_freq_hz, pwm_frequency_hz, dead_time_ns, debug) ==
    LET divisor == pwm_frequency_hz * Divider
        quot == clock_freq_hz \div divisor
        period == (quot % U16) \div 2
        dead_time_ticks == DeadTimeTicks(dead_time_ns, clock_freq_hz)
    IN  IF divisor = 0 \/ period = 0 THEN [panic |-> TRUE]
        ELSE [panic |-> FALSE, quotient |-> quot, period |-> period,
              dead_time_ticks |-> dead_time_ticks,
              dead_time_percentage |-> ((dead_time_ticks * 100) \div period) % U8]

\* The arithmetic of HalfBridge::new (lines 95-100), in the order the code evaluates
\* it.  Division by zero panics in every build; the u32 subtraction below zero panics
\* with overflow checks and wraps to 2^32 - 1 without them ((2^32 - 1) as u16 = 65535).
\* pwm_frequency_hz * 16 stays below 2^32 for the frequencies of the model.
Timing(clock_freq_hz, pwm_frequency_hz, dead_time_ns, debug) ==
    LET divisor == pwm_frequency_hz * Divider
        quot == clock_freq_hz \div divisor
        period == (IF quot = 0 THEN U16 - 1 ELSE (quot - 1) % U16) \div 2
        dead_time_ticks == DeadTimeTicks(dead_time_ns, clock_freq_hz)
    IN  IF divisor = 0 THEN [panic |-> TRUE]
        ELSE IF quot = 0 /\ debug THEN [panic |-> TRUE]
        ELSE IF period = 0 THEN [panic |-> TRUE]
        ELSE [panic |-> FALSE, quotient |-> quot, period |-> period,
              dead_time_ticks |-> dead_time_ticks,
              dead_time_percentage |-> ((dead_time_ticks * 100) \div period) % U8]

\* A Config for HalfBridge::new with channel B inverted, as in set_high.
new_config_inverted(divider, period) ==
    [invert_a |-> FALSE, invert_b |-> TRUE, phase_correct |-> TRUE, enable |-> TRUE,
     divider |-> divider, compare_a |-> 0, compare_b |-> 0, top |-> period]

\* The Config of HalfBridge::new (lines 103-111).
new_config(divider, period) ==
    [invert_a |-> FALSE, invert_b |-> FALSE, phase_correct |-> TRUE, enable |-> TRUE,
     divider |-> divider, compare_a |-> 0, compare_b |-> 0, top |-> period]

\* complementary_config of set_high (lines 126-134).
complementary_config(self) ==
    [invert_a |-> FALSE, invert_b |-> TRUE, phase_correct |-> TRUE, enable |-> TRUE,
     divider |-> self.divider, compare_a |-> 0, compare_b |-> 0, top |-> self.top]

\* A config for set_low that leaves top at the 0xffff of Config::default().
set_low_config_default_top(self) ==
    [invert_a |-> FALSE, invert_b |-> FALSE, phase_correct |-> TRUE, enable |-> TRUE,
     divider |-> self.divider, compare_a |-> 0, compare_b |-> 0, top |-> U16 - 1]

\* config of set_low (lines 148-156).
set_low_config(self) ==
    [invert_a |-> FALSE, invert_b |-> FALSE, phase_correct |-> TRUE, enable |-> TRUE,
     divider |-> self.divider, compare_a |-> 0, compare_b |-> 0, top |-> self.top]

\* config of set_high_impedance (lines 168-176).
set_high_impedance_config(self) ==
    [invert_a |-> FALSE, invert_b |-> FALSE, phase_correct |-> TRUE, enable |-> TRUE,
     divider |-> self.divider, compare_a |-> 0, compare_b |-> 0, top |-> self.top]

\* First hardware write of an operation: self.pwm.set_config(&config).
ConfigWrite(self, o) ==
    CASE o.tag = "HighDutyCycle" -> set_config(complementary_config(self))
      [] o.tag = "Low" -> set_config(set_low_config(self))
      [] o.tag = "HighImpedance" -> set_config(set_high_impedance_config(self))

\* Second hardware write: the write through high_pwm.
HighWrite(self, r, o, debug) ==
    CASE o.tag = "HighDutyCycle" -> set_duty_cycle_percent(r, "a", o.percentage, debug)
      [] o.tag = "Low" -> set_duty_cycle_fully_off(r, "a")
      [] o.tag = "HighImpedance" -> set_duty_cycle_fully_off(r, "a")

\* percentage + self.dead_time_percentage in u8: panics above 255 with overflow
\* checks, wraps without them.
LowPercent(self, o, debug) ==
    LET sum == o.percentage + self.dead_time_percentage
    IN  IF sum >= U8 /\ debug THEN -1 ELSE sum % U8

\* Third hardware write: the write through low_pwm.
LowWrite(self, r, o, debug) ==
    CASE o.tag = "HighDutyCycle" ->
            IF LowPercent(self, o, debug) < 0 THEN [regs |-> r, result |-> "Panic"]
            ELSE set_duty_cycle_percent(r, "b", LowPercent(self, o, debug), debug)
      [] o.tag = "Low" -> set_duty_cycle_fully_on(r, "b")
      [] o.tag = "HighImpedance" -> set_duty_cycle_fully_off(r, "b")

\* A Result that is unwrapped instead of dropped.
Unwrap(result) == IF result \in {"Panic", "Err"} THEN "panicked" ELSE "continue"

\* let _ = <Result>: the Result of a duty write is dropped; only a panic stops the code.
Discard(result) == IF result = "Panic" THEN "panicked" ELSE "continue"

\* A match whose arms read the next phase's field.
MatchPhaseShifted(output, h) == PhaseOf(output, NextBridge(h))

\* The match of bldc_driver_task on one phase of the table entry (lines 232-248).
MatchPhase(output, h) == PhaseOf(output, h)

\* step + 1 without the reduction modulo the table length.
NextStepWithoutWrap(s) == s + 1

\* An advance by two entries.
NextStepSkipping(s) == (s + 2) % TableLen

\* step = (step + 1) % THREE_PHASE_COMMUTATION_TABLE.len()
NextStep(s) == (s + 1) % TableLen

------------------------------------------------------------------------------
(* Inputs *)

\* clk_sys_freq() after embassy_rp::init(Default::default()): 125 MHz on the RP2040,
\* 150 MHz on the RP235x.
ClockFreqs == {125000000, 150000000}

\* The arguments of main's three HalfBridge::new calls (lines 202-204).
MainArgs == [pwm_frequency_hz |-> 25000, dead_time_ns |-> 1000]

\* Arguments for HalfBridge::new beyond main's: frequencies up to ones too high for
\* the clock and divider, dead times up to ones wider than the period, and the two
\* dead times around 2^16 ticks of the 125 MHz clock (2^16 * 16000 / 125 ns).
NewFrequencies == {25000, 5000000, 10000000}
NewDeadTimes == {0, 1000, 30000, 50000, 8388607, 8388608}

\* The duties handed to set_high in direct calls: every percentage up to fully on,
\* and two u8 values beyond it (150 and u8::MAX).
Duties == (0..FULLY_ON_DUTY_CYCLE) \cup {150, U8 - 1}

PhaseStates == {HighDutyCycle(d) : d \in Duties} \cup {Low, HighImpedance}

------------------------------------------------------------------------------
(* Initial states *)

InitCommon ==
    /\ clk_sys_freq \in ClockFreqs
    /\ debug_build \in BOOLEAN
    /\ pc = "new"
    /\ cur = "a"
    /\ op = HighImpedance
    /\ step = 0
    /\ hb = [h \in Bridges |-> NoBridge]
    /\ locals = [h \in Bridges |-> NoLocals]
    /\ hw = [h \in Bridges |-> ResetRegs]
    /\ active = [h \in Bridges |-> Latched(ResetRegs)]
    /\ results = [h \in Bridges |-> NoResults]
    /\ issued = {}
    /\ visited = << >>

\* The program as built: main with its constants.
Init ==
    /\ InitCommon
    /\ driver = "main"
    /\ args = MainArgs

\* main with other arguments to HalfBridge::new.
InitNew ==
    /\ InitCommon
    /\ driver = "main"
    /\ args \in [pwm_frequency_hz : NewFrequencies, dead_time_ns : NewDeadTimes]

\* One half bridge, built with main's arguments, operated on directly.
InitHalfBridge ==
    /\ InitCommon
    /\ driver = "test"
    /\ args = MainArgs

------------------------------------------------------------------------------
(* Actions *)

\* HalfBridge::new for bridge cur (lines 87-122), called from main (lines 202-204).
\* The slice is enabled here, its counter at 0, and starts from the values written.
New ==
    /\ pc = "new"
    /\ LET t == Timing(clk_sys_freq, args.pwm_frequency_hz, args.dead_time_ns, debug_build)
       IN  IF t.panic
           THEN /\ pc' = "panicked"
                /\ UNCHANGED <<cur, hb, locals, hw, active>>
           ELSE /\ hw' = [hw EXCEPT ![cur] = set_config(new_config(Divider, t.period))]
                /\ active' = [active EXCEPT ![cur] = Latched(hw'[cur])]
                /\ hb' = [hb EXCEPT ![cur] =
                            [divider |-> Divider, top |-> t.period,
                             dead_time_percentage |-> t.dead_time_percentage]]
                /\ locals' = [locals EXCEPT ![cur] =
                            [quotient |-> t.quotient, period |-> t.period,
                             dead_time_ticks |-> t.dead_time_ticks]]
                /\ IF driver = "test" THEN pc' = "idle" /\ cur' = cur
                   ELSE IF cur = "c" THEN pc' = "spawn" /\ cur' = cur
                   ELSE pc' = "new" /\ cur' = NextBridge(cur)
    /\ UNCHANGED <<clk_sys_freq, debug_build, driver, args, op, step, results, issued,
                   visited>>

\* spawner.spawn(bldc_driver_task(..)) and the task's first lines (206-210, 224-225).
Spawn ==
    /\ pc = "spawn"
    /\ step' = 0
    /\ pc' = "loop"
    /\ UNCHANGED <<clk_sys_freq, debug_build, driver, args, cur, op, hb, locals, hw,
                   active, results, issued, visited>>

\* The head of the loop: advance step and look the entry up (lines 228-230).
LoopHead ==
    /\ pc = "loop"
    /\ step' = NextStep(step)
    /\ visited' = LET v == Append(visited, NextStep(step))
                  IN  IF Len(v) > TableLen + 1 THEN Tail(v) ELSE v
    /\ issued' = {}
    /\ cur' = "a"
    /\ pc' = "match"
    /\ UNCHANGED <<clk_sys_freq, debug_build, driver, args, op, hb, locals, hw, active,
                   results>>

\* The first hardware write of operation o on bridge h.
Begin(h, o) ==
    /\ op' = o
    /\ hw' = [hw EXCEPT ![h] = ConfigWrite(hb[h], o)]
    /\ results' = [results EXCEPT ![h] = NoResults]
    /\ pc' = "high"

\* One match of the task (lines 232-248): the call of the operation, up to and
\* including its set_config.
Dispatch ==
    /\ pc = "match"
    /\ Begin(cur, MatchPhase(TableAt(step), cur))
    /\ issued' = issued \cup {cur}
    /\ UNCHANGED <<clk_sys_freq, debug_build, driver, args, cur, step, hb, locals, active,
                   visited>>

\* A direct call of set_high(d), set_low() or set_high_impedance().
Call ==
    /\ pc = "idle"
    /\ \E o \in PhaseStates : Begin(cur, o)
    /\ UNCHANGED <<clk_sys_freq, debug_build, driver, args, cur, step, hb, locals, active,
                   issued, visited>>

\* The write through high_pwm (lines 140, 162, 182).
WriteHigh ==
    /\ pc = "high"
    /\ LET w == HighWrite(hb[cur], hw[cur], op, debug_build)
       IN  /\ hw' = [hw EXCEPT ![cur] = w.regs]
           /\ results' = [results EXCEPT ![cur].high = w.result]
           /\ pc' = IF Discard(w.result) = "panicked" THEN "panicked" ELSE "low"
    /\ UNCHANGED <<clk_sys_freq, debug_build, driver, args, cur, op, step, hb, locals,
                   active, issued, visited>>

\* The write through low_pwm (lines 141-143, 163, 183) and the return to the caller.
WriteLow ==
    /\ pc = "low"
    /\ LET w == LowWrite(hb[cur], hw[cur], op, debug_build)
       IN  /\ hw' = [hw EXCEPT ![cur] = w.regs]
           /\ results' = [results EXCEPT ![cur].low = w.result]
           /\ IF Discard(w.result) = "panicked" THEN pc' = "panicked" /\ cur' = cur
              ELSE IF driver = "test" THEN pc' = "idle" /\ cur' = cur
              ELSE IF cur = "c" THEN pc' = "wait" /\ cur' = cur
              ELSE pc' = "match" /\ cur' = NextBridge(cur)
    /\ UNCHANGED <<clk_sys_freq, debug_build, driver, args, op, step, hb, locals, active,
                   issued, visited>>

\* ticker.next().await (line 249): the task sleeps until the 25 ms ticker fires.  The
\* wait spans hundreds of PWM periods, so every slice has wrapped when it ends.
TickerNext ==
    /\ pc = "wait"
    /\ pc' = "loop"
    /\ active' = [h \in Bridges |-> Latched(hw[h])]
    /\ UNCHANGED <<clk_sys_freq, debug_build, driver, args, cur, op, step, hb, locals, hw,
                   results, issued, visited>>

\* The counter of an enabled slice wraps: the slice latches the CC and TOP written.
Wrap ==
    /\ \E h \in Bridges :
          /\ hw[h].enable
          /\ active[h] # Latched(hw[h])
          /\ active' = [active EXCEPT ![h] = Latched(hw[h])]
    /\ UNCHANGED <<clk_sys_freq, debug_build, driver, args, pc, cur, op, step, hb, locals,
                   hw, results, issued, visited>>

Next == New \/ Spawn \/ LoopHead \/ Dispatch \/ WriteHigh \/ WriteLow \/ TickerNext \/ Wrap

NextHalfBridge == New \/ Call \/ WriteHigh \/ WriteLow \/ Wrap

\* The program as built.
Spec == Init /\ [][Next]_vars

\* main and the task over other arguments of HalfBridge::new.
SpecNew == InitNew /\ [][Next]_vars

\* One half bridge under every sequence of operations.
SpecHalfBridge == InitHalfBridge /\ [][NextHalfBridge]_vars

------------------------------------------------------------------------------
(* Drive states, read back from a slice *)

\* The conduction of bridge h: CSR as written, CC and TOP as latched.
Out(h) == Effective(hw[h], active[h])

\* The positions of bldc_driver_task.
TaskPcs == {"loop", "match", "high", "low", "wait"}

\* Energized at duty d: the high side conducts d percent of the counter range from 0,
\* the low side conducts the rest less the dead time, and never both.
Energized(r, self, d) ==
    /\ HighSide(r) = <<0, (d * r.top) \div 100>>
    /\ LowSide(r) = <<((d + self.dead_time_percentage) * r.top) \div 100, r.top + 1>>
    /\ Conducts(LowSide(r))
    /\ ~ShootThrough(r)

\* Grounded: the high side is off, the low side conducts as far as fully on programs it.
Grounded(r) ==
    /\ ~Conducts(HighSide(r))
    /\ Conducts(LowSide(r))
    /\ LowSide(r) = <<0, max_duty_cycle(r)>>

\* High impedance: neither side conducts.
Floating(r) == ~Conducts(HighSide(r)) /\ ~Conducts(LowSide(r))

\* Slice r realizes PhaseState o.
Realizes(r, self, o) ==
    CASE o.tag = "HighDutyCycle" -> Energized(r, self, o.percentage)
      [] o.tag = "Low" -> Grounded(r)
      [] o.tag = "HighImpedance" -> Floating(r)

\* A side is made to conduct at counter values at which it did not conduct before.
Grows(old, new) ==
    /\ Conducts(new)
    /\ ~(Conducts(old) /\ old[1] <= new[1] /\ new[2] <= old[2])

------------------------------------------------------------------------------
(* Claims *)

\* C1: in every reachable state of every half bridge, the states between the
\* hardware writes of an operation included, the high side and the low side of the
\* same half bridge never conduct at the same time.
C1_NoShootThrough == \A h \in Bridges : ~ShootThrough(Out(h))

\* C2: no hardware command issued for a channel makes a side conduct while the other
\* side of that channel is still commanded conducting: after every write that turns a
\* side on, the values written for the two sides do not overlap.
C2_OffBeforeOn ==
    [][\A h \in Bridges :
          (\/ Grows(HighSide(hw[h]), HighSide(hw'[h]))
           \/ Grows(LowSide(hw[h]), LowSide(hw'[h])))
          => ~ShootThrough(hw'[h])]_vars

\* The roles of one table entry.
Roles(output, tag) == {h \in Bridges : PhaseOf(output, h).tag = tag}

\* C3: every entry of THREE_PHASE_COMMUTATION_TABLE, at each index in 0..5 and so at
\* the task's current step, has exactly one phase in HighDutyCycle, exactly one in Low
\* and exactly one in HighImpedance.
C3_OneOfEachRole ==
    /\ TableLen = 6
    /\ \A i \in (0..(TableLen - 1)) \cup {step} :
          /\ Cardinality(Roles(TableAt(i), "HighDutyCycle")) = 1
          /\ Cardinality(Roles(TableAt(i), "Low")) = 1
          /\ Cardinality(Roles(TableAt(i), "HighImpedance")) = 1

\* C3 witness: the task has looked up and applied the last entry of the table.
C3_Witness == pc = "wait" /\ step = 5 /\ issued = Bridges

\* C4: six advances of step return to the index they started from, and any six
\* consecutive ticks look up and apply each of the six entries exactly once.
C4_Revolution ==
    /\ Len(visited) = 7 => visited[7] = visited[1]
    /\ (Len(visited) >= 6 /\ pc = "wait") =>
          /\ issued = Bridges
          /\ {visited[i] : i \in (Len(visited) - 5)..Len(visited)} = 0..5

\* C4 witness: seven ticks have run and the seventh has applied its entry.
C4_Witness == Len(visited) = 7 /\ pc = "wait" /\ step = 3

\* C5: at every tick boundary, after the three dispatches, each half bridge is in the
\* drive state the entry at the new step prescribes for its phase, so that one phase
\* is energized, one grounded and one floating.
C5_TickBoundary ==
    (pc = "loop" /\ Len(visited) > 0) =>
        /\ \A h \in Bridges : Realizes(Out(h), hb[h], PhaseOf(TableAt(step), h))
        /\ Cardinality({h \in Bridges :
                \E d \in 1..100 : Energized(Out(h), hb[h], d)}) = 1
        /\ Cardinality({h \in Bridges : Grounded(Out(h))}) = 1
        /\ Cardinality({h \in Bridges : Floating(Out(h))}) = 1

\* C5 witness: the tick that applied entry 2, where phase a went from energized to
\* floating, b from floating to energized and c stayed grounded, has ended.
C5_Witness ==
    /\ pc = "loop" /\ step = 2 /\ Len(visited) > 0
    /\ Floating(Out("a")) /\ Grounded(Out("c"))
    /\ Energized(Out("b"), hb["b"], MAX_INVERTER_DUTY_CYCLE)

\* C6: for every duty d in 0..100, once set_high(d) has completed, the high side is
\* programmed to conduct d percent and the low side the complement less the dead time:
\* both writes are accepted, d + dead_time_percentage stays within 0..100, the two
\* sides together conduct no more than the whole period and a gap separates them.
C6_ComplementaryWithDeadTime ==
    (pc = "idle" /\ op.tag = "HighDutyCycle" /\ op.percentage <= 100) =>
        LET r == hw[cur]
            d == op.percentage
            low == d + hb[cur].dead_time_percentage
        IN  /\ results[cur] = [high |-> "Ok", low |-> "Ok"]
            /\ low <= 100
            /\ HighSide(r) = <<0, (d * r.top) \div 100>>
            /\ LowSide(r) = <<(low * r.top) \div 100, r.top + 1>>
            /\ Width(HighSide(r)) + Width(LowSide(r)) <= r.top + 1
            /\ HighSide(r)[2] < LowSide(r)[1]

\* C7: a duty above 100 handed to set_high is clamped: the code does not panic, the
\* high side is programmed with duty 100, and the half bridge ends energized, its
\* two sides never conducting together.
C7_ClampsDuty ==
    (op.tag = "HighDutyCycle" /\ op.percentage > 100 /\ pc \in {"low", "idle", "panicked"}) =>
        /\ pc # "panicked"
        /\ hw[cur].compare_a = (100 * max_duty_cycle(hw[cur])) \div 100
        /\ pc = "idle" => (Conducts(HighSide(hw[cur])) /\ ~ShootThrough(hw[cur]))

\* C8: bldc_driver_task runs only on half bridges whose timing is sound: a positive
\* number of ticks per period, a positive period, dead_time_ticks below the period.
C8_FatalConfiguration ==
    pc \in TaskPcs =>
        \A h \in Bridges :
            /\ locals[h].quotient > 0
            /\ locals[h].period > 0
            /\ locals[h].dead_time_ticks < locals[h].period

\* A duty write of the latest operation on bridge h returned Err.
Failed(h) == results[h].high = "Err" \/ results[h].low = "Err"

\* The task can take its next step.
TaskStep == LoopHead \/ Dispatch \/ WriteHigh \/ WriteLow \/ TickerNext

\* C9: a failed hardware write of one channel neither skips a dispatch nor stops the
\* task: while a failed write is on record the task has not panicked and its next
\* step is enabled, and a tick reaches its wait only with all three channels dispatched.
C9_FailureDoesNotStop ==
    /\ (\E h \in Bridges : Failed(h)) => (pc \in TaskPcs /\ ENABLED TaskStep)
    /\ pc = "wait" => issued = Bridges

\* C9 witness: the low side write of phase a failed, the other two channels were
\* dispatched after it, and this is not the first tick.
C9_Witness ==
    /\ results["a"].low = "Err"
    /\ pc = "wait" /\ issued = Bridges
    /\ Len(visited) >= 2

\* C10: when a duty write of an operation has failed, the operation leaves the channel
\* in high impedance, both sides commanded off, until the channel's next operation.
C10_FallbackHighImpedance ==
    \A h \in Bridges :
        (Failed(h) /\ results[h].low # "None" /\ pc # "panicked") => Floating(hw[h])

\* The inputs of C11: a 125 MHz clock, 25 kHz switching frequency, no dead time.
C11_Inputs ==
    /\ clk_sys_freq = 125000000
    /\ args = [pwm_frequency_hz |-> 25000, dead_time_ns |-> 0]

\* C11 as stated: for these inputs HalfBridge::new computes 312 ticks per period and
\* programs the timer top with 312 / 2.
C11_TopIsHalfPeriod ==
    \A h \in Bridges :
        (C11_Inputs /\ hw[h].enable) =>
            /\ locals[h].quotient = 312
            /\ hw[h].top = locals[h].quotient \div 2

\* C11 as amended: for these inputs clock / (frequency * divider) is 312, and the top
\* that HalfBridge::new stores and programs is (312 - 1) / 2 = 155.
C11_TopIsHalfOfPeriodLessOne ==
    \A h \in Bridges :
        (C11_Inputs /\ hw[h].enable) =>
            /\ locals[h].quotient = 312
            /\ locals[h].period = 155
            /\ hb[h].top = 155
            /\ hw[h].top = 155

\* C11 witness: the three half bridges were built from these inputs and the task runs.
C11_Witness == C11_Inputs /\ pc = "loop" /\ \A h \in Bridges : hw[h].enable

\* C12: for a fixed clock and divider dead_time_ticks never decreases when dead_time_ns
\* grows: the ticks HalfBridge::new computed for its dead_time_ns are at least the
\* ticks of every smaller dead time.
C12_DeadTimeMonotonic ==
    \A h \in Bridges :
        hw[h].enable =>
            \A smaller \in NewDeadTimes :
                smaller <= args.dead_time_ns =>
                    DeadTimeTicks(smaller, clk_sys_freq) <= locals[h].dead_time_ticks

\* The state the table prescribes for phase h at index i, the table read cyclically.
PhaseAt(h, i) == PhaseOf(TableAt(i % TableLen), h)

\* The states of phase h over the six entries that start at index s.
Sequence(h, s) == [k \in 1..TableLen |-> PhaseAt(h, s + k - 1).tag]

\* Phases b and c follow phase a two and four entries later.
Shifted ==
    \A i \in (0..(TableLen - 1)) \cup {step} :
        /\ PhaseAt("b", i + 2) = PhaseAt("a", i)
        /\ PhaseAt("c", i + 4) = PhaseAt("a", i)

\* C13 as stated: read cyclically, each phase is Energized for two consecutive
\* entries, Grounded for the next two and HighImpedance for the remaining two, and the
\* sequences of b and c are the sequence of a shifted by 2 and 4 entries.
C13_TwoTwoTwo ==
    /\ \A h \in Bridges : \E s \in (0..(TableLen - 1)) \cup {step} :
          Sequence(h, s) = << "HighDutyCycle", "HighDutyCycle", "Low", "Low",
                              "HighImpedance", "HighImpedance" >>
    /\ Shifted

\* C13 as amended: read cyclically, each phase is Energized for two consecutive
\* entries, HighImpedance for one, Grounded for the next two and HighImpedance for the
\* remaining one, and the sequences of b and c are the sequence of a shifted by 2 and
\* 4 entries.
C13_TwoOneTwoOne ==
    /\ \A h \in Bridges : \E s \in (0..(TableLen - 1)) \cup {step} :
          Sequence(h, s) = << "HighDutyCycle", "HighDutyCycle", "HighImpedance",
                              "Low", "Low", "HighImpedance" >>
    /\ Shifted

\* C13 witness: the task has walked the table past its end and is back at entry 0,
\* where the sequence of phase a starts.
C13_Witness ==
    /\ pc = "loop" /\ step = 0 /\ Len(visited) = TableLen + 1
    /\ PhaseAt("a", step).tag = "HighDutyCycle" /\ PhaseAt("a", step + 5).tag = "HighImpedance"

\* Bridge h is constructed and no operation has been called on it yet: the task has
\* not started its first tick, or is in its first tick and has not dispatched h.
Untouched(h) ==
    /\ hw[h].enable
    /\ \/ Len(visited) = 0
       \/ Len(visited) = 1 /\ pc \in {"match", "high", "low"} /\ h \notin issued

\* C14: from HalfBridge::new until the first operation on it a half bridge is in high
\* impedance: neither its high side nor its low side conducts, as programmed and as
\* latched by the slice.
C14_InitiallyHighImpedance ==
    \A h \in Bridges : Untouched(h) => (Floating(hw[h]) /\ Floating(Out(h)))

\* C14 witness: in the first tick phase a has been operated on and energized while
\* phase c, constructed with it, still waits for its first operation.
C14_Witness ==
    /\ Untouched("c") /\ "a" \in issued /\ pc = "match" /\ cur = "b"
    /\ Conducts(HighSide(hw["a"]))

\* C15: whatever state a half bridge was in, a completed operation leaves it in the
\* operation's target state: set_low grounded (high side off, low side on),
\* set_high_impedance floating (both sides off), set_high(d), d a percentage, energized
\* at d.
C15_ReachesTargetState ==
    (pc = "idle" /\ results[cur].low # "None" /\ op.percentage <= FULLY_ON_DUTY_CYCLE) =>
        Realizes(hw[cur], hb[cur], op)

\* C16: step is in 0..5 in every state, so that the lookup is within the table; step
\* changes only at the head of the task's loop, where every pass replaces it by
\* (step + 1) mod 6, which takes 5 back to 0.
C16_StepAdvance ==
    /\ [](step \in 0..5 /\ step < Len(THREE_PHASE_COMMUTATION_TABLE))
    /\ [][(step' # step \/ (pc = "loop" /\ pc' # "loop")) =>
            /\ pc = "loop" /\ pc' = "match"
            /\ step' = (step + 1) % 6
            /\ step = 5 => step' = 0]_vars

\* C16 witness: the loop head has taken step from 5 back to 0 and entry 0 is about to
\* be looked up.
C16_Witness ==
    /\ pc = "match" /\ cur = "a" /\ step = 0 /\ issued = {}
    /\ Len(visited) >= 2 /\ visited[Len(visited) - 1] = 5

\* The task's code is inside an operation on a half bridge.
InOperation == pc \in {"high", "low"}

\* C17: ticks do not overlap.  Between two waits on the ticker step is advanced once,
\* at the loop head that opens the tick, and one operation is begun on each of the
\* three half bridges; the task writes to the hardware only inside these operations;
\* and it reaches the next wait, and so the next tick, only when all three operations
\* of this tick have made both of their duty writes.
C17_TicksDoNotOverlap ==
    /\ [](pc = "wait" =>
            /\ issued = Bridges
            /\ \A h \in Bridges : results[h].high # "None" /\ results[h].low # "None"
            /\ visited[Len(visited)] = step)
    /\ [][/\ (pc = "loop" /\ pc' # "loop") => (step' # step /\ issued' = {})
          /\ (pc # "loop" /\ pc \in TaskPcs) => step' = step
          /\ (pc = "match" /\ pc' = "high") =>
                (cur \notin issued /\ issued' = issued \cup {cur})
          /\ (hw' # hw /\ pc \in TaskPcs) =>
                /\ pc = "match" \/ InOperation
                /\ cur \in issued'
                /\ \A h \in Bridges \ {cur} : hw'[h] = hw[h]
          /\ (pc = "wait" /\ pc' # "wait") => (pc' = "loop" /\ hw' = hw)]_vars

\* C17 witness: the second tick has made all its writes and waits for the ticker.
C17_Witness ==
    /\ pc = "wait" /\ issued = Bridges /\ Len(visited) = 2 /\ step = 2
    /\ \A h \in Bridges : results[h].low # "None"

\* C18: the timing configuration is fixed by construction.  The fields top, divider
\* and dead_time_percentage of a half bridge never change once HalfBridge::new has set
\* them, and the hardware is programmed with the top and divider of the fields, by new
\* and by every write of set_high, set_low and set_high_impedance.
C18_TimingConfigurationFixed ==
    /\ [](\A h \in Bridges : hw[h].enable =>
            /\ hb[h].top = locals[h].period /\ hb[h].divider = Divider
            /\ hw[h].top = hb[h].top /\ hw[h].divider = hb[h].divider
            /\ active[h].top = hb[h].top)
    /\ [][\A h \in Bridges : hb[h] # NoBridge => hb'[h] = hb[h]]_vars

\* C18 witness: set_low has completed on a half bridge and the slice still counts to
\* the top computed at construction.
C18_Witness ==
    /\ pc = "idle" /\ op = Low /\ results[cur].low = "Ok"
    /\ hw[cur].top = locals[cur].period /\ hw[cur].compare_b > 0

\* The entry applied in the tick before the current one.
PreviousStep == visited[Len(visited) - 1]

\* The operation in progress is set_high(d) on a half bridge that the previous tick
\* energized at the same d.
Reenergizing ==
    /\ InOperation /\ Len(visited) >= 2
    /\ op.tag = "HighDutyCycle"
    /\ PhaseOf(TableAt(step), cur) = op
    /\ PhaseOf(TableAt(PreviousStep), cur) = op

\* C19: while set_high(d) runs on a half bridge already energized at d, the conduction
\* is not disturbed: in no state inside the call is the high side switched off or the
\* low side conducting over the whole period.
C19_ReenergizingUndisturbed ==
    Reenergizing =>
        /\ Conducts(HighSide(Out(cur)))
        /\ Width(LowSide(Out(cur))) < Out(cur).top + 1

\* The half bridges whose high side conducts.
HighSidesOn == {h \in Bridges : Conducts(HighSide(Out(h)))}

\* C20 as stated: in every state, the states between the dispatches of phases a, b and
\* c inside one tick included, at most one half bridge has its high side conducting.
C20_AtMostOneEnergized == Cardinality(HighSidesOn) <= 1

\* C20 as amended: at every tick boundary, when the ticker has fired and the next pass
\* of the loop has not begun, at most one half bridge has its high side conducting;
\* inside a tick, between the dispatches and until the slices have latched the writes,
\* at most two have.
C20_AtMostOneEnergizedAtBoundary ==
    /\ pc = "loop" => Cardinality(HighSidesOn) <= 1
    /\ Cardinality(HighSidesOn) <= 2

\* C20 witness: the tick that took the table from entry 5 to entry 0 has ended, with
\* phase a energized and phase c, energized before it, released.
C20_Witness ==
    /\ pc = "loop" /\ step = 0 /\ Len(visited) >= TableLen
    /\ HighSidesOn = {"a"}

====
